---- MODULE Spec2Model ----
(***************************************************************************)
(* Voice-Tool: the RunPod job gateways (transcribe_audio and               *)
(* synthesize_speech), the LLM router, the /ws/voice session relay of      *)
(* voice-service/server.py and the bridge WebSocket server of              *)
(* bridge_server.py, as state machines.                                    *)
(*                                                                         *)
(* Every coroutine is cut at its awaits on the network: one action runs    *)
(* the code from one network answer to the next request.  The answers of   *)
(* the remote services are the inputs, drawn from small sets.              *)
(***************************************************************************)
EXTENDS Integers, Sequences, FiniteSets, TLC

VARIABLES
    \* ---- configuration (config.py Config, the server's global `config`)
    cfg,          \* [stt |-> [endpoint_id, api_key], tts |-> [endpoint_id, api_key]]
    \* ---- one call of transcribe_audio / synthesize_speech
    jKind,        \* "none" | "stt" | "tts": the gateway being called
    jPc,          \* "idle" | "submit" | "poll" | "done": where the coroutine waits
    jText,        \* synthesize_speech's text argument ("" for a transcription)
    jResult,      \* the code's `result`: the response body extraction reads
    jPosts,       \* POST /runsync requests issued by this call
    jPolls,       \* GET /status/{id} requests issued by this call
    jOutcome,     \* how the call ended: a return value or a raised exception
    jHttp,        \* HTTP status of the submission response (0: none yet)
    jSub,         \* the submission response body as received
    jLast,        \* the latest poll response body
    jSeen,        \* poll responses received
    jPrevInProg,  \* every poll response before the latest was IN_PROGRESS
    \* ---- the LLM registry (config.llm) and its persisted file
    llm,          \* [active_provider, active_model, providers: name -> LLMProvider]
    disk,         \* what save_config last wrote to CONFIG_FILE (NoFile: no file)
    \* ---- one call of LLMRouter.chat
    rPc,          \* "idle" | "await" | "done"
    rArgs,        \* the call's arguments: [messages, provider, model]
    rReq,         \* the HTTP request the adapter issued (NoRequest: none)
    rNet,         \* HTTP requests issued by this call
    rOutcome,     \* how the call ended
    rList,        \* the caller's message list, as the call has left it
    rUpdate,      \* the latest operation on the configuration: an update
                  \*   request, or a restart and the update before it
    \* ---- LLMRouter.list_models
    lCall,        \* the latest call: its provider, the live query's outcome,
                  \*   the provider's configured models and what was returned
    lPrev,        \* the call before it
    \* ---- /ws/voice: ConnectionManager and one websocket_voice per session
    active_connections,  \* manager.active_connections, a list
    wPc,          \* per session: "new" | "recv" | "stt" | "llm" | "tts" |
                  \*   "closed" (WebSocketDisconnect) | "crashed" (another exception)
    wData,        \* per session: the event being handled (`data`)
    wHistory,     \* per session: conversation_history
    wSettings,    \* per session: tts_settings
    wSent,        \* per session: the events sent since `data` was received
    wAsked,       \* per session: the list the latest llm_router.chat was given
    wSpoken,      \* per session: the arguments of the latest synthesize_speech
    wRaised,      \* per session: the exception a gateway call raised into the loop
    wInbox,       \* per session: the events received from the client and not
                  \*   yet returned by receive_json, oldest first
    \* ---- bridge_server.py: VoiceBridgeServer and its one claude_client
    bMessages,    \* claude_client.messages: one list for the whole server
    bActive,      \* self.active_connections, a set
    bPc,          \* per connection: "new" | "recv" | "listen" | "think" | "stream" |
                  \*   "speak" | "closed"
    bData,        \* per connection: the message being processed
    bSent,        \* per connection: the events sent since that message arrived
    bUserText,    \* per connection: user_text
    bResponse,    \* per connection: response_text, as the chunks received
    bStream,      \* per connection: the chunks the open stream has yet to yield
    bAsked        \* per connection: kwargs["messages"] of the latest stream

jobVars == <<jKind, jPc, jText, jResult, jPosts, jPolls, jOutcome,
             jHttp, jSub, jLast, jSeen, jPrevInProg>>

routerVars == <<llm, disk, rPc, rArgs, rReq, rNet, rOutcome, rList, rUpdate>>

modelsVars == <<lCall, lPrev>>

relayVars == <<active_connections, wPc, wData, wHistory, wSettings, wSent,
               wAsked, wSpoken, wRaised, wInbox>>

bridgeVars == <<bMessages, bActive, bPc, bData, bSent, bUserText, bResponse,
                bStream, bAsked>>

vars == <<cfg, jobVars, routerVars, modelsVars, relayVars, bridgeVars>>

\* What the operations of one component leave alone.
notJob == <<routerVars, modelsVars, relayVars, bridgeVars>>
notConfig == <<jobVars, modelsVars, relayVars, bridgeVars>>
notRouter == <<cfg, jobVars, modelsVars, relayVars, bridgeVars>>
notModels == <<cfg, jobVars, routerVars, relayVars, bridgeVars>>
notRelay == <<cfg, jobVars, routerVars, modelsVars, bridgeVars>>
notBridge == <<cfg, jobVars, routerVars, modelsVars, relayVars>>

----------------------------------------------------------------------------
(* Values *)

\* The poll ceiling: `for _ in range(60)`.
MaxPolls == 60

\* A key a JSON object does not hold.
Absent == "<absent>"

\* The job statuses a RunPod response can carry; CANCELLED stands for every
\* status the code has no branch for.
Statuses == {"IN_QUEUE", "IN_PROGRESS", "COMPLETED", "FAILED", "CANCELLED"}

\* The `output` member of a response body: absent, a JSON object, or a JSON
\* string.
NoOutput == [t |-> "absent"]
DictOutput(text, transcription, audio_base64, audio) ==
    [t |-> "dict", text |-> text, transcription |-> transcription,
     audio_base64 |-> audio_base64, audio |-> audio]
StrOutput(s) == [t |-> "str", s |-> s]
EmptyDict == DictOutput(Absent, Absent, Absent, Absent)

SttOutputs == {NoOutput,
               DictOutput("hello world", Absent, Absent, Absent),
               DictOutput(Absent, "hola", Absent, Absent),
               StrOutput("raw text")}
TtsOutputs == {NoOutput,
               DictOutput(Absent, Absent, "aGk=", Absent),
               DictOutput(Absent, Absent, Absent, "aGV5"),
               StrOutput("aGk="),
               StrOutput("a")}
Outputs(kind) == IF kind = "stt" THEN SttOutputs ELSE TtsOutputs

Body(status, output) == [status |-> status, output |-> output]
NoBody == Body("<none>", NoOutput)

\* The response bodies of the remote service: a job that has not ended
\* (or was cancelled) carries no output yet.
Bodies(kind) ==
    {Body(s, NoOutput) : s \in {"IN_QUEUE", "IN_PROGRESS", "CANCELLED"}}
        \cup {Body(s, o) : s \in {"COMPLETED", "FAILED"}, o \in Outputs(kind)}

\* HTTP statuses of the submission response.
HttpStatuses == {200, 401, 500}

NoOutcome == [kind |-> "none"]
Return(v) == [kind |-> "return", value |-> v]
Raise(exc, code, detail) ==
    [kind |-> "raise", exc |-> exc, status_code |-> code, detail |-> detail]

\* The endpoint ids and keys a configuration can hold.
EndpointIds == {"", "rxfzl47istu4i2"}
ApiKeys == {"", "rp-key"}
ServiceConfigs == [endpoint_id : EndpointIds, api_key : ApiKeys]

\* The texts synthesize_speech is called with.
SynthTexts == {"", "hi there"}

----------------------------------------------------------------------------
(* Pure functions of the gateways *)

\* dict.get(key, default)
Get(d, key, default) == IF d[key] = Absent THEN default ELSE d[key]

\* base64.b64decode on the strings the model uses: "a" has a length that is
\* not a multiple of four and is refused (binascii.Error).
B64Valid(s) == s \in {"", "aGk=", "aGV5"}
B64Decode(s) ==
    CASE s = "" -> ""
      [] s = "aGk=" -> "hi"
      [] s = "aGV5" -> "hey"

\* `output = result.get("output", {})` and the extraction after it.
OutputOf(body) == IF body.output.t = "absent" THEN EmptyDict ELSE body.output

ExtractText(body) ==
    LET output == OutputOf(body) IN
    IF output.t = "dict"
    THEN Return(Get(output, "text", Get(output, "transcription", "")))
    ELSE Return(output.s)

ExtractAudio(body) ==
    LET output == OutputOf(body)
        audio_b64 == IF output.t = "dict"
                     THEN Get(output, "audio_base64", Get(output, "audio", ""))
                     ELSE output.s
    IN  IF B64Valid(audio_b64)
        THEN Return(B64Decode(audio_b64))
        ELSE Raise("binascii.Error", 0, "Incorrect padding")

Extract(kind, body) == IF kind = "stt" THEN ExtractText(body) ELSE ExtractAudio(body)

\* `result.get("status") in ["IN_QUEUE", "IN_PROGRESS"]`
NeedsPolling(body) == body.status \in {"IN_QUEUE", "IN_PROGRESS"}

\* The details of the HTTPExceptions the gateways raise.
NotConfiguredDetail(kind) ==
    IF kind = "stt" THEN "STT not configured" ELSE "TTS not configured"
UpstreamDetail(kind) == IF kind = "stt" THEN "STT error" ELSE "TTS error"
JobFailedDetail(kind) == IF kind = "stt" THEN "STT job failed" ELSE "TTS job failed"

\* A guard that looks at the endpoint id alone.
Configured_EndpointOnly(c, kind) == c[kind].endpoint_id # ""

\* `if not config.stt.endpoint_id or not config.stt.api_key` negated.
Configured(c, kind) == c[kind].endpoint_id # "" /\ c[kind].api_key # ""

\* A loop that has no branch for COMPLETED.
PollBranch_NoBreak(body) ==
    IF body.status = "FAILED" THEN "failed" ELSE "again"

\* A loop that has no branch for FAILED.
PollBranch_NoRaise(body) ==
    IF body.status = "COMPLETED" THEN "completed" ELSE "again"

\* The branches of the poll loop's body: `if ... == "COMPLETED": break`,
\* `elif ... == "FAILED": raise`, otherwise the next iteration.
PollBranch(body) ==
    IF body.status = "COMPLETED" THEN "completed"
    ELSE IF body.status = "FAILED" THEN "failed"
    ELSE "again"

\* The status the HTTP routes answer with: the route handlers call the
\* gateways and the router with no try/except, so a returned value is a 200,
\* an HTTPException answers its own status_code and any other exception is
\* the framework's 500.
HttpStatus(outcome) ==
    IF outcome.kind = "return" THEN 200
    ELSE IF outcome.exc = "HTTPException" THEN outcome.status_code
    ELSE 500

----------------------------------------------------------------------------
(* transcribe_audio / synthesize_speech *)

JobIdle ==
    /\ jKind = "none" /\ jPc = "idle" /\ jText = "" /\ jResult = NoBody
    /\ jPosts = 0 /\ jPolls = 0 /\ jOutcome = NoOutcome /\ jHttp = 0
    /\ jSub = NoBody /\ jLast = NoBody /\ jSeen = 0 /\ jPrevInProg = TRUE

\* The call up to its first await: the not-configured guard, then the POST.
JobCall(kind, text) ==
    /\ jPc = "idle"
    /\ jKind' = kind
    /\ jText' = text
    /\ IF ~Configured(cfg, kind)
       THEN /\ jOutcome' = Raise("HTTPException", 400, NotConfiguredDetail(kind))
            /\ jPc' = "done"
            /\ jPosts' = jPosts
       ELSE /\ jOutcome' = NoOutcome
            /\ jPc' = "submit"
            /\ jPosts' = jPosts + 1
    /\ UNCHANGED <<cfg, jResult, jPolls, jHttp, jSub, jLast, jSeen, jPrevInProg>>
    /\ UNCHANGED notJob

\* What the code does once the loop is over or was never entered.
JobFinish(kind, body) == Extract(kind, body)

\* The submission response arrives: non-200 raises, a non-terminal status
\* enters the poll loop (first GET), anything else goes to the extraction.
JobSubmitResponse(http, body) ==
    /\ jPc = "submit"
    /\ jHttp' = http
    /\ IF http # 200
       THEN /\ jOutcome' = Raise("HTTPException", http, UpstreamDetail(jKind))
            /\ jPc' = "done"
            /\ UNCHANGED <<jResult, jPolls, jSub>>
       ELSE /\ jResult' = body
            /\ jSub' = body
            /\ IF NeedsPolling(body)
               THEN /\ jPolls' = jPolls + 1
                    /\ jPc' = "poll"
                    /\ jOutcome' = NoOutcome
               ELSE /\ jPolls' = jPolls
                    /\ jPc' = "done"
                    /\ jOutcome' = JobFinish(jKind, body)
    /\ UNCHANGED <<cfg, jKind, jText, jPosts, jLast, jSeen, jPrevInProg>>
    /\ UNCHANGED notJob

\* One poll response: COMPLETED replaces `result` and leaves the loop, FAILED
\* raises, anything else polls again until range(60) is used up; the code
\* after the loop then extracts from `result` as it stands.
JobPollResponse(body) ==
    /\ jPc = "poll"
    /\ jLast' = body
    /\ jSeen' = jSeen + 1
    /\ jPrevInProg' = (jPrevInProg /\ (jSeen = 0 \/ jLast.status = "IN_PROGRESS"))
    /\ IF PollBranch(body) = "completed"
       THEN /\ jResult' = body
            /\ jPc' = "done"
            /\ jOutcome' = JobFinish(jKind, body)
            /\ jPolls' = jPolls
       ELSE IF PollBranch(body) = "failed"
       THEN /\ jOutcome' = Raise("HTTPException", 500, JobFailedDetail(jKind))
            /\ jPc' = "done"
            /\ UNCHANGED <<jResult, jPolls>>
       ELSE IF jPolls < MaxPolls
       THEN /\ jPolls' = jPolls + 1
            /\ UNCHANGED <<jResult, jPc, jOutcome>>
       ELSE /\ jPc' = "done"
            /\ jOutcome' = JobFinish(jKind, jResult)
            /\ UNCHANGED <<jResult, jPolls>>
    /\ UNCHANGED <<cfg, jKind, jText, jPosts, jHttp, jSub>>
    /\ UNCHANGED notJob

\* The caller has its answer; the next call starts from scratch.
JobReturn ==
    /\ jPc = "done"
    /\ jKind' = "none" /\ jPc' = "idle" /\ jText' = "" /\ jResult' = NoBody
    /\ jPosts' = 0 /\ jPolls' = 0 /\ jOutcome' = NoOutcome /\ jHttp' = 0
    /\ jSub' = NoBody /\ jLast' = NoBody /\ jSeen' = 0 /\ jPrevInProg' = TRUE
    /\ UNCHANGED cfg
    /\ UNCHANGED notJob

\* The configurations load_config can produce.
Configs == [stt : ServiceConfigs, tts : ServiceConfigs]

----------------------------------------------------------------------------
(* The LLM registry: config.py LLMConfig *)

\* Python's None.
NoneV == "<None>"

\* `not x` for a str or None.
Falsy(x) == x = "" \/ x = NoneV

LLMProvider(api_key, base_url, models) ==
    [api_key |-> api_key, base_url |-> base_url, models |-> models]

DefaultActiveProvider == "openrouter"
DefaultActiveModel == "cognitivecomputations/dolphin-mistral-24b-venice-edition:free"

\* os.getenv of the four provider keys: each unset ("") or set.
EnvVars == {"OPENROUTER_API_KEY", "OPENAI_API_KEY", "ANTHROPIC_API_KEY", "GROQ_API_KEY"}
Envs == [EnvVars -> {"", "sk-env"}]

\* LLMConfig.__post_init__: the six built-in providers.
DefaultProviders(env) ==
    [n \in {"openrouter", "ollama", "openai", "anthropic", "groq", "local"} |->
        CASE n = "openrouter" ->
                LLMProvider(env["OPENROUTER_API_KEY"], "https://openrouter.ai/api/v1",
                    <<"cognitivecomputations/dolphin-mistral-24b-venice-edition:free",
                      "anthropic/claude-sonnet-4-20250514", "openai/gpt-4o",
                      "google/gemini-pro", "meta-llama/llama-3-70b-instruct">>)
          [] n = "ollama" ->
                LLMProvider("", "http://localhost:11434",
                    <<"llama3", "mistral", "codellama", "deepseek-coder">>)
          [] n = "openai" ->
                LLMProvider(env["OPENAI_API_KEY"], "https://api.openai.com/v1",
                    <<"gpt-4o", "gpt-4-turbo", "gpt-3.5-turbo">>)
          [] n = "anthropic" ->
                LLMProvider(env["ANTHROPIC_API_KEY"], "https://api.anthropic.com/v1",
                    <<"claude-sonnet-4-20250514", "claude-3-opus-20240229",
                      "claude-3-haiku-20240307">>)
          [] n = "groq" ->
                LLMProvider(env["GROQ_API_KEY"], "https://api.groq.com/openai/v1",
                    <<"llama-3.1-70b-versatile", "mixtral-8x7b-32768">>)
          [] n = "local" ->
                LLMProvider("", "http://localhost:8080", <<"local-model">>)]

DefaultLLM(env) ==
    [active_provider |-> DefaultActiveProvider,
     active_model |-> DefaultActiveModel,
     providers |-> DefaultProviders(env)]

\* save_config's `data`.
NoFile == [t |-> "nofile"]
SavedData(c, l) ==
    [t |-> "file",
     stt |-> c.stt,
     tts |-> c.tts,
     llm |-> [active_provider |-> l.active_provider,
              active_model |-> l.active_model,
              providers |-> [n \in DOMAIN l.providers |->
                                [api_key |-> l.providers[n].api_key,
                                 base_url |-> l.providers[n].base_url,
                                 models |-> l.providers[n].models]]]]

\* dict `d` with d[k] = v.
Put(d, k, v) == [n \in DOMAIN d \cup {k} |-> IF n = k THEN v ELSE d[n]]

----------------------------------------------------------------------------
(* LLMRouter: providers.py *)

Msg(role, content) == [role |-> role, content |-> content]

NoRequest == [shape |-> "none"]
NoProvider == [none |-> TRUE]

\* A lookup that falls back to the default provider's entry.
LookupProvider_Default(providers, name) ==
    IF name \in DOMAIN providers THEN providers[name]
    ELSE providers[DefaultActiveProvider]

\* `self.config.llm.providers.get(provider)`; NoProvider is get's None.
LookupProvider(providers, name) ==
    IF name \in DOMAIN providers THEN providers[name] ELSE NoProvider

\* `provider or self.config.llm.active_provider`
OrElse(x, default) == IF Falsy(x) THEN default ELSE x

\* _chat_anthropic's conversion: the last system message's content, and the
\* other messages in order.
RECURSIVE SystemMessage(_)
SystemMessage(messages) ==
    IF messages = <<>> THEN ""
    ELSE LET last == messages[Len(messages)] IN
         IF last.role = "system" THEN last.content
         ELSE SystemMessage(SubSeq(messages, 1, Len(messages) - 1))

IsNotSystem(msg) == msg.role # "system"
ChatMessages(messages) == SelectSeq(messages, IsNotSystem)

\* The request each adapter builds.
OpenAIRequest(messages, model, pc, provider_name) ==
    [shape |-> "openai",
     url |-> <<pc.base_url, "/chat/completions">>,
     provider |-> provider_name,
     authorization |-> IF Falsy(pc.api_key) THEN Absent ELSE pc.api_key,
     x_api_key |-> Absent,
     openrouter_headers |-> (provider_name = "openrouter"),
     model |-> model,
     messages |-> messages,
     system |-> Absent,
     max_tokens |-> 4096]

OllamaRequest(messages, model, pc) ==
    [shape |-> "ollama",
     url |-> <<pc.base_url, "/api/chat">>,
     provider |-> "ollama",
     authorization |-> Absent,
     x_api_key |-> Absent,
     openrouter_headers |-> FALSE,
     model |-> model,
     messages |-> messages,
     system |-> Absent,
     max_tokens |-> 0]

AnthropicRequest(messages, model, pc) ==
    [shape |-> "anthropic",
     url |-> <<pc.base_url, "/messages">>,
     provider |-> "anthropic",
     authorization |-> Absent,
     x_api_key |-> pc.api_key,
     openrouter_headers |-> FALSE,
     model |-> model,
     messages |-> ChatMessages(messages),
     system |-> IF SystemMessage(messages) # "" THEN SystemMessage(messages)
                ELSE Absent,
     max_tokens |-> 4096]

\* A router that knows the OpenAI-compatible adapter only.
Dispatch_OpenAIOnly(messages, provider, model, pc) ==
    OpenAIRequest(messages, model, pc, provider)

\* `if provider == "ollama": ... elif provider == "anthropic": ... else: ...`
Dispatch(messages, provider, model, pc) ==
    IF provider = "ollama" THEN OllamaRequest(messages, model, pc)
    ELSE IF provider = "anthropic" THEN AnthropicRequest(messages, model, pc)
    ELSE OpenAIRequest(messages, model, pc, provider)

AdapterError(req) ==
    CASE req.shape = "ollama" -> "Ollama error"
      [] req.shape = "anthropic" -> "Anthropic error"
      [] OTHER -> "LLM error"

\* An Anthropic adapter that takes the system messages out of the list it
\* was given.
ListAfterAdapter_SystemPopped(messages, provider) ==
    IF provider = "anthropic" THEN ChatMessages(messages) ELSE messages

\* The caller's list once the adapter has built its payload: the OpenAI and
\* Ollama adapters put `messages` itself into the payload, the Anthropic one
\* reads it into chat_messages; none assigns to it, appends to it or removes
\* from it.
ListAfterAdapter(messages, provider) == messages

RouterIdle ==
    /\ rPc = "idle" /\ rReq = NoRequest /\ rNet = 0 /\ rOutcome = NoOutcome
    /\ rArgs = [messages |-> <<>>, provider |-> NoneV, model |-> NoneV]
    /\ rList = <<>>

\* LLMRouter.chat up to the adapter's client.post.
RouterChat(messages, provider, model) ==
    /\ rPc = "idle"
    /\ rArgs' = [messages |-> messages, provider |-> provider, model |-> model]
    /\ LET p == OrElse(provider, llm.active_provider)
           mdl == OrElse(model, llm.active_model)
           provider_config == LookupProvider(llm.providers, p)
       IN  IF provider_config = NoProvider
           THEN /\ rOutcome' = Raise("ValueError", 0, "Unknown provider")
                /\ rPc' = "done"
                /\ rList' = messages
                /\ UNCHANGED <<rReq, rNet>>
           ELSE /\ rReq' = Dispatch(messages, p, mdl, provider_config)
                /\ rList' = ListAfterAdapter(messages, p)
                /\ rNet' = rNet + 1
                /\ rPc' = "await"
                /\ rOutcome' = NoOutcome
    /\ UNCHANGED <<llm, disk, rUpdate>>
    /\ UNCHANGED notRouter

\* The adapter after client.post: non-200 raises, otherwise the content.
RouterResponse(http, content) ==
    /\ rPc = "await"
    /\ rPc' = "done"
    /\ rOutcome' = IF http # 200 THEN Raise("Exception", http, AdapterError(rReq))
                   ELSE Return(content)
    /\ UNCHANGED <<llm, disk, rArgs, rReq, rNet, rList, rUpdate>>
    /\ UNCHANGED notRouter

RouterReturn ==
    /\ rPc = "done"
    /\ rPc' = "idle" /\ rReq' = NoRequest /\ rNet' = 0 /\ rOutcome' = NoOutcome
    /\ rArgs' = [messages |-> <<>>, provider |-> NoneV, model |-> NoneV]
    /\ rList' = <<>>
    /\ UNCHANGED <<llm, disk, rUpdate>>
    /\ UNCHANGED notRouter

\* The latest operation on the configuration.
NoUpdate == [op |-> "none"]
Upsert(provider_name, provider) ==
    [op |-> "upsert", name |-> provider_name, provider |-> provider]
SetActiveRequest(provider, model) ==
    [op |-> "set-active", provider |-> provider, model |-> model]
ConfigRequest(update) == [op |-> "config", update |-> update]
Restarted(env, before) ==
    [op |-> "restart", env |-> env,
     before |-> IF before.op = "restart" THEN before.before ELSE before]

\* POST /llm/providers/{provider_name}: the assignment and save_config, with
\* no await between them.
api_add_provider(provider_name, provider) ==
    /\ llm' = [llm EXCEPT !.providers =
                 Put(llm.providers, provider_name,
                     LLMProvider(provider.api_key, provider.base_url, provider.models))]
    /\ disk' = SavedData(cfg, llm')
    /\ rUpdate' = Upsert(provider_name, provider)
    /\ UNCHANGED <<rPc, rArgs, rReq, rNet, rOutcome, rList>>
    /\ UNCHANGED notRouter

\* An update that has assigned the provider and not yet the model.
SetActive_ProviderOnly(l, provider, model) ==
    [l EXCEPT !.active_provider = provider]

\* `config.llm.active_provider = provider; config.llm.active_model = model`
SetActive(l, provider, model) ==
    [l EXCEPT !.active_provider = provider, !.active_model = model]

\* POST /llm/set-active: the two assignments and save_config, with no await
\* between them.
api_set_active_llm(provider, model) ==
    /\ llm' = SetActive(llm, provider, model)
    /\ disk' = SavedData(cfg, llm')
    /\ rUpdate' = SetActiveRequest(provider, model)
    /\ UNCHANGED <<rPc, rArgs, rReq, rNet, rOutcome, rList>>
    /\ UNCHANGED notRouter

\* POST /config: each field of the update that is set and not empty is
\* assigned, then save_config; no await between them.
ConfigUpdate(stt_endpoint_id, stt_api_key, tts_endpoint_id, tts_api_key,
             active_llm_provider, active_llm_model) ==
    [stt_endpoint_id |-> stt_endpoint_id, stt_api_key |-> stt_api_key,
     tts_endpoint_id |-> tts_endpoint_id, tts_api_key |-> tts_api_key,
     active_llm_provider |-> active_llm_provider,
     active_llm_model |-> active_llm_model]

api_update_config(update) ==
    /\ cfg' = [stt |-> [endpoint_id |-> OrElse(update.stt_endpoint_id, cfg.stt.endpoint_id),
                        api_key |-> OrElse(update.stt_api_key, cfg.stt.api_key)],
               tts |-> [endpoint_id |-> OrElse(update.tts_endpoint_id, cfg.tts.endpoint_id),
                        api_key |-> OrElse(update.tts_api_key, cfg.tts.api_key)]]
    /\ llm' = [llm EXCEPT
                 !.active_provider = OrElse(update.active_llm_provider, @),
                 !.active_model = OrElse(update.active_llm_model, @)]
    /\ disk' = SavedData(cfg', llm')
    /\ rUpdate' = ConfigRequest(update)
    /\ UNCHANGED <<rPc, rArgs, rReq, rNet, rOutcome, rList>>
    /\ UNCHANGED notConfig

\* GET /llm/providers: the catalogue, with `configured` per provider.
api_get_providers(l) ==
    [active_provider |-> l.active_provider,
     active_model |-> l.active_model,
     providers |-> [name \in DOMAIN l.providers |->
                      [configured |-> IF name # "ollama"
                                      THEN ~Falsy(l.providers[name].api_key)
                                      ELSE TRUE,
                       base_url |-> l.providers[name].base_url,
                       models |-> l.providers[name].models]]]

\* GET /health.
health(c, l) ==
    [status |-> "healthy",
     stt_configured |-> c.stt.endpoint_id # "",
     tts_configured |-> c.tts.endpoint_id # "",
     llm_provider |-> l.active_provider,
     llm_model |-> l.active_model]

\* GET /config.
api_get_config(c, l) ==
    [stt |-> [endpoint_id |-> c.stt.endpoint_id, configured |-> c.stt.api_key # ""],
     tts |-> [endpoint_id |-> c.tts.endpoint_id, configured |-> c.tts.api_key # ""],
     llm |-> [active_provider |-> l.active_provider,
              active_model |-> l.active_model,
              providers |-> DOMAIN l.providers]]

\* The inputs of the router's operations.
ChatProviders == {NoneV, "", "ollama", "anthropic", "groq", "custom", "nope"}
ChatModels == {NoneV, "gpt-4o"}
ChatInputs == {<<Msg("system", "be brief"), Msg("user", "hello")>>}
UpsertNames == {"anthropic", "custom"}
UpsertConfigs == {LLMProvider(NoneV, NoneV, <<>>),
                  LLMProvider("sk-new", "https://llm.example/v1", <<"m1">>)}
ActiveChoices == {<<"custom", "m1">>, <<"ollama", "llama3">>}
LLMReplies == {"", "hello back"}
ConfigUpdates ==
    {ConfigUpdate(NoneV, NoneV, NoneV, NoneV, "ollama", "mistral"),
     ConfigUpdate(NoneV, "rp-key", "", "rp-key", "anthropic", NoneV)}

----------------------------------------------------------------------------
(* LLMRouter.list_models *)

\* What the GET {base_url}/api/tags can come to: no connection, no answer
\* within the timeout, or a response with a status and a body.
ConnectError == [t |-> "connect_error"]
Timeout == [t |-> "timeout"]
TagsResponse(status, body) == [t |-> "response", status |-> status, body |-> body]

\* Response bodies: text that is not JSON, a JSON array, or a JSON object
\* whose "models" member is absent, null or a list of objects, each with a
\* "name" or without.
NotJson == [json |-> "invalid"]
JsonArray == [json |-> "array"]
JsonObject(models) == [json |-> "object", models |-> models]
NoMember == [t |-> "absent"]
Null == [t |-> "null"]
List(tags) == [t |-> "list", tags |-> tags]
Tag(name) == [name |-> name]

\* `m["name"]` raises KeyError for an entry without a name.
HasName(tag) == tag.name # Absent
AllNamed(tags) == \A i \in DOMAIN tags : HasName(tags[i])
Names(tags) == [i \in DOMAIN tags |-> tags[i].name]

\* The body of the `try`: the list returned from inside it, or Fallthrough
\* when the status is not 200 or an exception was swallowed by `except`.
Fallthrough == [kind |-> "fallthrough"]
LiveModels(reply) ==
    IF reply.t # "response" THEN Fallthrough
    ELSE IF reply.status # 200 THEN Fallthrough
    ELSE IF reply.body.json # "object" THEN Fallthrough
    ELSE IF reply.body.models = NoMember THEN Return(<<>>)
    ELSE IF reply.body.models = Null THEN Fallthrough
    ELSE IF AllNamed(reply.body.models.tags) THEN Return(Names(reply.body.models.tags))
    ELSE Fallthrough

\* LLMRouter.list_models
list_models(providers, provider, reply) ==
    LET provider_config == LookupProvider(providers, provider) IN
    IF provider_config = NoProvider THEN Return(<<>>)
    ELSE IF provider = "ollama" /\ LiveModels(reply) # Fallthrough
    THEN LiveModels(reply)
    ELSE Return(provider_config.models)

NoListCall == [provider |-> NoneV]

ModelsIdle == lCall = NoListCall /\ lPrev = NoListCall

\* One call of list_models; `reply` is what the live query comes to (it is
\* made for "ollama" only).
ListModels(provider, reply) ==
    /\ lPrev' = lCall
    /\ lCall' = [provider |-> provider,
                 reply |-> reply,
                 configured |-> IF provider \in DOMAIN llm.providers
                                THEN llm.providers[provider].models ELSE <<>>,
                 result |-> list_models(llm.providers, provider, reply)]
    /\ UNCHANGED notModels

----------------------------------------------------------------------------
(* /ws/voice: server.py ConnectionManager and websocket_voice *)

\* The connections the service is offered.
Sessions == {"A", "B"}

\* The initial tts_settings; the floats are written in hundredths.
DefaultSettings ==
    [exaggeration |-> 50, temperature |-> 80, cfg_weight |-> 50,
     audio_prompt_base64 |-> NoneV]
SettingsKeys == {"exaggeration", "temperature", "cfg_weight", "audio_prompt_base64"}

\* The server's events.
Status(message) == [type |-> "status", message |-> message]
Transcription(text) == [type |-> "transcription", text |-> text]
Response(text) == [type |-> "response", text |-> text]
Audio(audio_b64) == [type |-> "audio", audio_base64 |-> audio_b64]

\* base64.b64encode on the byte strings the model uses.
B64Encode(b) ==
    CASE b = "" -> ""
      [] b = "hi" -> "aGk="
      [] b = "hey" -> "aGV5"

NoData == [type |-> "<none>"]
NoCall == [text |-> NoneV]

\* The response sent after the synthesis status.
AfterChatAudio_StatusFirst(response_text) ==
    <<Status("Synthesizing..."), Response(response_text)>>

\* What the audio branch sends between the LLM call and the synthesis.
AfterChatAudio(response_text) ==
    <<Response(response_text), Status("Synthesizing...")>>

\* An append that skips a message the history already holds.
AppendMessage_Dedup(history, role, content) ==
    IF \E i \in DOMAIN history : history[i] = Msg(role, content)
    THEN history
    ELSE Append(history, Msg(role, content))

\* `conversation_history.append({"role": role, "content": content})`
AppendMessage(history, role, content) == Append(history, Msg(role, content))

\* A clear that keeps the first message.
ClearedHistory_KeepFirst(history) ==
    IF history = <<>> THEN <<>> ELSE <<history[1]>>

\* `conversation_history = []`
ClearedHistory(history) == <<>>

\* A settings update that resets the parameters the event leaves out.
MergeSettings_Replace(settings, data) ==
    [k \in SettingsKeys |-> IF k \in DOMAIN data THEN data[k] ELSE DefaultSettings[k]]

\* `tts_settings[k] = data[k]` for every key of tts_settings in `data`.
MergeSettings(settings, data) ==
    [k \in SettingsKeys |-> IF k \in DOMAIN data THEN data[k] ELSE settings[k]]

RelayIdle ==
    /\ active_connections = <<>>
    /\ wPc = [s \in Sessions |-> "new"]
    /\ wData = [s \in Sessions |-> NoData]
    /\ wHistory = [s \in Sessions |-> <<>>]
    /\ wSettings = [s \in Sessions |-> DefaultSettings]
    /\ wSent = [s \in Sessions |-> <<>>]
    /\ wAsked = [s \in Sessions |-> <<>>]
    /\ wSpoken = [s \in Sessions |-> NoCall]
    /\ wRaised = [s \in Sessions |-> NoOutcome]
    /\ wInbox = [s \in Sessions |-> <<>>]

\* manager.connect and the locals of websocket_voice.
WsConnect(s) ==
    /\ wPc[s] = "new"
    /\ active_connections' = Append(active_connections, s)
    /\ wPc' = [wPc EXCEPT ![s] = "recv"]
    /\ wHistory' = [wHistory EXCEPT ![s] = <<>>]
    /\ wSettings' = [wSettings EXCEPT ![s] = DefaultSettings]
    /\ UNCHANGED <<wData, wSent, wAsked, wSpoken, wRaised, wInbox>>
    /\ UNCHANGED notRelay

\* A reader that hands over an event at every await of the handler.
AtReceive_AnyAwait(s) == wPc[s] \in {"recv", "stt", "llm", "tts"}

\* The coroutine is at `data = await websocket.receive_json()`, the one place
\* where websocket_voice reads from the socket.
AtReceive(s) == wPc[s] = "recv"

\* The client's next event reaches the socket; it waits there, behind the
\* events that came before it, until receive_json returns it.
WsArrive(s, event) ==
    /\ wPc[s] \in {"recv", "stt", "llm", "tts"}
    /\ wInbox' = [wInbox EXCEPT ![s] = Append(@, event)]
    /\ UNCHANGED <<active_connections, wPc, wData, wHistory, wSettings, wSent,
                   wAsked, wSpoken, wRaised>>
    /\ UNCHANGED notRelay

\* receive_json returns the oldest waiting event as `data`.
Receive(s, type) ==
    /\ AtReceive(s)
    /\ wInbox[s] # <<>>
    /\ Head(wInbox[s]).type = type
    /\ wData' = [wData EXCEPT ![s] = Head(wInbox[s])]
    /\ wInbox' = [wInbox EXCEPT ![s] = Tail(@)]

\* An exception that is not WebSocketDisconnect leaves the coroutine: no
\* handler of websocket_voice catches it, nothing is sent, and
\* manager.disconnect is not called.
Crash(s, exc) ==
    /\ wPc' = [wPc EXCEPT ![s] = "crashed"]
    /\ wRaised' = [wRaised EXCEPT ![s] = exc]

\* A manager whose disconnect leaves the list as it is.
Disconnect_Keep(connections, s) == connections

\* ConnectionManager.disconnect: `self.active_connections.remove(websocket)`;
\* a connection is in the list at most once.
Disconnect(connections, s) == SelectSeq(connections, LAMBDA x : x # s)

\* receive_json raises WebSocketDisconnect: the client went away.  The
\* `except WebSocketDisconnect` clause calls manager.disconnect and the
\* coroutine ends.
WsDisconnect(s) ==
    /\ AtReceive(s)
    /\ wInbox[s] = <<>>
    /\ wPc' = [wPc EXCEPT ![s] = "closed"]
    /\ active_connections' = Disconnect(active_connections, s)
    /\ UNCHANGED <<wData, wHistory, wSettings, wSent, wAsked, wSpoken, wRaised,
                   wInbox>>
    /\ UNCHANGED notRelay

\* An `audio` event, up to the await of transcribe_audio; an audio_base64
\* that b64decode refuses raises binascii.Error out of the coroutine.
WsAudio(s) ==
    /\ Receive(s, "audio")
    /\ IF B64Valid(Head(wInbox[s]).audio_base64)
       THEN /\ wSent' = [wSent EXCEPT ![s] = <<Status("Transcribing...")>>]
            /\ wPc' = [wPc EXCEPT ![s] = "stt"]
            /\ wRaised' = [wRaised EXCEPT ![s] = NoOutcome]
       ELSE /\ wSent' = [wSent EXCEPT ![s] = <<>>]
            /\ wPc' = [wPc EXCEPT ![s] = "crashed"]
            /\ wRaised' = [wRaised EXCEPT ![s] = NoOutcome]
    /\ UNCHANGED <<active_connections, wHistory, wSettings, wAsked, wSpoken>>
    /\ UNCHANGED notRelay

\* transcribe_audio has returned or raised; on a text, up to the await of
\* llm_router.chat.
WsTranscribed(s, outcome) ==
    /\ wPc[s] = "stt"
    /\ IF outcome.kind = "return"
       THEN /\ wHistory' = [wHistory EXCEPT ![s] =
                                 AppendMessage(@, "user", outcome.value)]
            /\ wSent' = [wSent EXCEPT ![s] =
                           @ \o <<Transcription(outcome.value), Status("Thinking...")>>]
            /\ wAsked' = [wAsked EXCEPT ![s] = wHistory'[s]]
            /\ wPc' = [wPc EXCEPT ![s] = "llm"]
            /\ UNCHANGED wRaised
       ELSE /\ Crash(s, outcome)
            /\ UNCHANGED <<wHistory, wSent, wAsked>>
    /\ UNCHANGED <<active_connections, wData, wSettings, wSpoken, wInbox>>
    /\ UNCHANGED notRelay

\* A `text` event, up to the await of llm_router.chat.
WsText(s) ==
    /\ Receive(s, "text")
    /\ wHistory' = [wHistory EXCEPT ![s] =
                         AppendMessage(@, "user", Head(wInbox[s]).text)]
    /\ wAsked' = [wAsked EXCEPT ![s] = wHistory'[s]]
    /\ wSent' = [wSent EXCEPT ![s] = <<>>]
    /\ wRaised' = [wRaised EXCEPT ![s] = NoOutcome]
    /\ wPc' = [wPc EXCEPT ![s] = "llm"]
    /\ UNCHANGED <<active_connections, wSettings, wSpoken>>
    /\ UNCHANGED notRelay

\* llm_router.chat has returned or raised; on a response, up to the await of
\* synthesize_speech, or to the next receive_json when no audio is asked for.
WsChatted(s, outcome) ==
    /\ wPc[s] = "llm"
    /\ IF outcome.kind = "return"
       THEN LET response_text == outcome.value
                speak == wData[s].type = "audio"
                            \/ (wData[s].type = "text" /\ wData[s].synthesize)
            IN  /\ wHistory' = [wHistory EXCEPT ![s] =
                                  AppendMessage(@, "assistant", response_text)]
                /\ wSent' = [wSent EXCEPT ![s] =
                               IF wData[s].type = "audio"
                               THEN @ \o AfterChatAudio(response_text)
                               ELSE Append(@, Response(response_text))]
                /\ wSpoken' = [wSpoken EXCEPT ![s] =
                                 IF speak
                                 THEN [text |-> response_text,
                                       settings |-> wSettings[s]]
                                 ELSE @]
                /\ wPc' = [wPc EXCEPT ![s] = IF speak THEN "tts" ELSE "recv"]
                /\ UNCHANGED wRaised
       ELSE /\ Crash(s, outcome)
            /\ UNCHANGED <<wHistory, wSent, wSpoken>>
    /\ UNCHANGED <<active_connections, wData, wSettings, wAsked, wInbox>>
    /\ UNCHANGED notRelay

\* synthesize_speech has returned or raised.
WsSynthesized(s, outcome) ==
    /\ wPc[s] = "tts"
    /\ IF outcome.kind = "return"
       THEN /\ wSent' = [wSent EXCEPT ![s] = Append(@, Audio(B64Encode(outcome.value)))]
            /\ wPc' = [wPc EXCEPT ![s] = "recv"]
            /\ UNCHANGED wRaised
       ELSE /\ Crash(s, outcome)
            /\ UNCHANGED wSent
    /\ UNCHANGED <<active_connections, wData, wHistory, wSettings, wAsked, wSpoken,
                   wInbox>>
    /\ UNCHANGED notRelay

\* A `clear` event.
WsClear(s) ==
    /\ Receive(s, "clear")
    /\ wHistory' = [wHistory EXCEPT ![s] = ClearedHistory(@)]
    /\ wSent' = [wSent EXCEPT ![s] = <<Status("Conversation cleared")>>]
    /\ wRaised' = [wRaised EXCEPT ![s] = NoOutcome]
    /\ UNCHANGED <<active_connections, wPc, wSettings, wAsked, wSpoken>>
    /\ UNCHANGED notRelay

\* A `settings` event; `data` holds the keys the client sent.
WsSettings(s) ==
    /\ Receive(s, "settings")
    /\ wSettings' = [wSettings EXCEPT ![s] = MergeSettings(@, Head(wInbox[s]))]
    /\ wSent' = [wSent EXCEPT ![s] = <<Status("Settings updated")>>]
    /\ wRaised' = [wRaised EXCEPT ![s] = NoOutcome]
    /\ UNCHANGED <<active_connections, wPc, wHistory, wAsked, wSpoken>>
    /\ UNCHANGED notRelay

\* An event of a type no branch handles: the loop goes round.
WsOther(s) ==
    /\ Receive(s, "ping")
    /\ wSent' = [wSent EXCEPT ![s] = <<>>]
    /\ wRaised' = [wRaised EXCEPT ![s] = NoOutcome]
    /\ UNCHANGED <<active_connections, wPc, wHistory, wSettings, wAsked, wSpoken>>
    /\ UNCHANGED notRelay

----------------------------------------------------------------------------
(* bridge_server.py VoiceBridgeServer, api_client.py ClaudeAPIClient *)

\* The bridge's events.
Event(type) == [type |-> type]
ErrorEvent(message) == [type |-> "error", message |-> message]
ResponseChunk(text) == [type |-> "response_chunk", text |-> text]
AudioResponse(audio, text) == [type |-> "audio_response", audio |-> audio, text |-> text]

BridgeIdle ==
    /\ bMessages = <<>>
    /\ bActive = {}
    /\ bPc = [c \in Sessions |-> "new"]
    /\ bData = [c \in Sessions |-> NoData]
    /\ bSent = [c \in Sessions |-> <<>>]
    /\ bUserText = [c \in Sessions |-> NoneV]
    /\ bResponse = [c \in Sessions |-> <<>>]
    /\ bStream = [c \in Sessions |-> <<>>]
    /\ bAsked = [c \in Sessions |-> <<>>]

\* handle_client: the connection is added to the set.
BrConnect(c) ==
    /\ bPc[c] = "new"
    /\ bActive' = bActive \cup {c}
    /\ bPc' = [bPc EXCEPT ![c] = "recv"]
    /\ UNCHANGED <<bMessages, bData, bSent, bUserText, bResponse, bStream, bAsked>>
    /\ UNCHANGED notBridge

\* handle_client: `async for` ends and `finally` removes the connection.
BrDisconnect(c) ==
    /\ bPc[c] = "recv"
    /\ bActive' = bActive \ {c}
    /\ bPc' = [bPc EXCEPT ![c] = "closed"]
    /\ UNCHANGED <<bMessages, bData, bSent, bUserText, bResponse, bStream, bAsked>>
    /\ UNCHANGED notBridge

\* process_message for `ping`, for any other type and for invalid JSON.
BrSimple(c, type) ==
    /\ bPc[c] = "recv"
    /\ bData' = [bData EXCEPT ![c] = [type |-> type]]
    /\ bSent' = [bSent EXCEPT ![c] =
                   CASE type = "ping" -> <<Event("pong")>>
                     [] type = "<invalid json>" -> <<ErrorEvent("Invalid JSON")>>
                     [] OTHER -> <<ErrorEvent("Unknown message type")>>]
    /\ UNCHANGED <<bMessages, bActive, bPc, bUserText, bResponse, bStream, bAsked>>
    /\ UNCHANGED notBridge

\* handle_audio up to voice.listen: the decoding, then the first status.
BrAudio(c, audio_b64) ==
    /\ bPc[c] = "recv"
    /\ bData' = [bData EXCEPT ![c] = [type |-> "audio", audio |-> audio_b64]]
    /\ bResponse' = [bResponse EXCEPT ![c] = <<>>]
    /\ IF B64Valid(audio_b64)
       THEN /\ bSent' = [bSent EXCEPT ![c] = <<Status("Transcribing...")>>]
            /\ bPc' = [bPc EXCEPT ![c] = "listen"]
       ELSE /\ bSent' = [bSent EXCEPT ![c] = <<ErrorEvent("Audio processing error")>>]
            /\ UNCHANGED bPc
    /\ UNCHANGED <<bMessages, bActive, bUserText, bStream, bAsked>>
    /\ UNCHANGED notBridge

\* voice.listen has returned or raised.
BrListened(c, outcome) ==
    /\ bPc[c] = "listen"
    /\ IF outcome.kind = "return"
       THEN /\ bUserText' = [bUserText EXCEPT ![c] = outcome.value]
            /\ bSent' = [bSent EXCEPT ![c] =
                           @ \o <<Transcription(outcome.value), Status("Thinking...")>>]
            /\ bPc' = [bPc EXCEPT ![c] = "think"]
       ELSE /\ bSent' = [bSent EXCEPT ![c] =
                           Append(@, ErrorEvent("Audio processing error"))]
            /\ bPc' = [bPc EXCEPT ![c] = "recv"]
            /\ UNCHANGED bUserText
    /\ UNCHANGED <<bMessages, bActive, bData, bResponse, bStream, bAsked>>
    /\ UNCHANGED notBridge

\* handle_text up to the stream: the status.
BrText(c, text, synthesize) ==
    /\ bPc[c] = "recv"
    /\ bData' = [bData EXCEPT ![c] =
                   [type |-> "text", text |-> text, synthesize |-> synthesize]]
    /\ bUserText' = [bUserText EXCEPT ![c] = text]
    /\ bResponse' = [bResponse EXCEPT ![c] = <<>>]
    /\ bSent' = [bSent EXCEPT ![c] = <<Status("Thinking...")>>]
    /\ bPc' = [bPc EXCEPT ![c] = "think"]
    /\ UNCHANGED <<bMessages, bActive, bStream, bAsked>>
    /\ UNCHANGED notBridge

\* A handler whose `except` reports the failure as a status.
ProcessingError_AsStatus(c) == Status("error")

ProcessingError(c) ==
    IF bData[c].type = "audio" THEN ErrorEvent("Audio processing error")
    ELSE ErrorEvent("Text processing error")

\* send_message_streaming starts: the user message joins self.messages, the
\* stream is opened on self.messages, and its first chunk is relayed.
\* `chunks` is what the stream will yield; <<>> with `fails` is a stream that
\* raises at once.
BrStreamStart(c, chunks, fails) ==
    /\ bPc[c] = "think"
    /\ bMessages' = Append(bMessages, Msg("user", bUserText[c]))
    /\ bAsked' = [bAsked EXCEPT ![c] = bMessages']
    /\ IF fails
       THEN /\ bSent' = [bSent EXCEPT ![c] = Append(@, ProcessingError(c))]
            /\ bPc' = [bPc EXCEPT ![c] = "recv"]
            /\ UNCHANGED <<bResponse, bStream>>
       ELSE /\ bResponse' = [bResponse EXCEPT ![c] = <<Head(chunks)>>]
            /\ bSent' = [bSent EXCEPT ![c] = Append(@, ResponseChunk(Head(chunks)))]
            /\ bStream' = [bStream EXCEPT ![c] = Tail(chunks)]
            /\ bPc' = [bPc EXCEPT ![c] = "stream"]
    /\ UNCHANGED <<bActive, bData, bUserText>>
    /\ UNCHANGED notBridge

\* The stream's next step: another chunk, or its end, where the assistant
\* message joins self.messages and the handler goes on to the synthesis or to
\* `complete`.
BrStreamNext(c) ==
    /\ bPc[c] = "stream"
    /\ IF bStream[c] # <<>>
       THEN /\ bResponse' = [bResponse EXCEPT ![c] = Append(@, Head(bStream[c]))]
            /\ bSent' = [bSent EXCEPT ![c] = Append(@, ResponseChunk(Head(bStream[c])))]
            /\ bStream' = [bStream EXCEPT ![c] = Tail(@)]
            /\ UNCHANGED <<bMessages, bPc>>
       ELSE /\ bMessages' = Append(bMessages, Msg("assistant", bResponse[c]))
            /\ IF bData[c].type = "audio" \/ bData[c].synthesize
               THEN /\ bSent' = [bSent EXCEPT ![c] =
                                   Append(@, Status("Generating speech..."))]
                    /\ bPc' = [bPc EXCEPT ![c] = "speak"]
               ELSE /\ bSent' = [bSent EXCEPT ![c] = Append(@, Event("complete"))]
                    /\ bPc' = [bPc EXCEPT ![c] = "recv"]
            /\ UNCHANGED <<bResponse, bStream>>
    /\ UNCHANGED <<bActive, bData, bUserText, bAsked>>
    /\ UNCHANGED notBridge

\* The open stream raises instead of yielding: the generator is left before
\* the assistant message joins self.messages, and the handler's `except`
\* sends the error.
BrStreamBreaks(c) ==
    /\ bPc[c] = "stream"
    /\ bSent' = [bSent EXCEPT ![c] = Append(@, ProcessingError(c))]
    /\ bPc' = [bPc EXCEPT ![c] = "recv"]
    /\ UNCHANGED <<bMessages, bActive, bData, bUserText, bResponse, bStream, bAsked>>
    /\ UNCHANGED notBridge

\* voice.speak has returned or raised.
BrSpoken(c, outcome) ==
    /\ bPc[c] = "speak"
    /\ bSent' = [bSent EXCEPT ![c] =
                   IF outcome.kind = "return"
                   THEN @ \o <<AudioResponse(B64Encode(outcome.value), bResponse[c]),
                               Event("complete")>>
                   ELSE Append(@, ProcessingError(c))]
    /\ bPc' = [bPc EXCEPT ![c] = "recv"]
    /\ UNCHANGED <<bMessages, bActive, bData, bUserText, bResponse, bStream, bAsked>>
    /\ UNCHANGED notBridge

\* The configuration of a fresh installation: config.py's defaults.
DefaultCfg ==
    [stt |-> [endpoint_id |-> "rxfzl47istu4i2", api_key |-> ""],
     tts |-> [endpoint_id |-> "8bj9tg60e7nw6y", api_key |-> ""]]

\* A component a specification does not exercise stays as constructed.
RouterAtRest ==
    /\ RouterIdle /\ llm = DefaultLLM([v \in EnvVars |-> ""]) /\ disk = NoFile
    /\ rUpdate = NoUpdate
    /\ ModelsIdle

----------------------------------------------------------------------------
(* Start-up: config.py load_config *)

\* The environment variables load_config reads besides the provider keys.
RunpodVars == {"RUNPOD_STT_ENDPOINT", "RUNPOD_STT_API_KEY", "RUNPOD_TTS_ENDPOINT",
               "RUNPOD_TTS_API_KEY", "RUNPOD_API_KEY"}

\* The environment in which the variables of `set` are set.
EnvWith(set) ==
    [v \in EnvVars \cup RunpodVars |->
        IF v \notin set THEN "" ELSE IF v \in EnvVars THEN "sk-env" ELSE "rp-env"]

\* One provider entry of the file read over the built-in entry of that name:
\* api_key always, base_url and models when the file's value is not empty.
MergeBuiltin(builtin, pdata) ==
    LLMProvider(pdata.api_key,
                IF Falsy(pdata.base_url) THEN builtin.base_url ELSE pdata.base_url,
                IF pdata.models = <<>> THEN builtin.models ELSE pdata.models)

\* The file's providers read into the registry Config() starts with.
LoadProviders(builtins, saved) ==
    [n \in DOMAIN builtins \cup DOMAIN saved |->
        IF n \notin DOMAIN saved THEN builtins[n]
        ELSE IF n \in DOMAIN builtins THEN MergeBuiltin(builtins[n], saved[n])
        ELSE LLMProvider(saved[n].api_key, saved[n].base_url, saved[n].models)]

\* load_config: Config(), then the file if there is one, then the RUNPOD_*
\* variables that are set.
load_config(file, env) ==
    LET config == [stt |-> DefaultCfg.stt, tts |-> DefaultCfg.tts,
                   llm |-> DefaultLLM(env)]
        loaded == IF file = NoFile THEN config
                  ELSE [stt |-> file.stt,
                        tts |-> file.tts,
                        llm |-> [active_provider |-> file.llm.active_provider,
                                 active_model |-> file.llm.active_model,
                                 providers |-> LoadProviders(config.llm.providers,
                                                             file.llm.providers)]]
        shared == env["RUNPOD_API_KEY"]
        stt_key == OrElse(env["RUNPOD_STT_API_KEY"], loaded.stt.api_key)
        tts_key == IF shared # "" /\ Falsy(loaded.tts.api_key)
                   THEN shared ELSE loaded.tts.api_key
    IN  [stt |-> [endpoint_id |-> OrElse(env["RUNPOD_STT_ENDPOINT"],
                                         loaded.stt.endpoint_id),
                  api_key |-> IF shared # "" /\ Falsy(stt_key) THEN shared ELSE stt_key],
         tts |-> [endpoint_id |-> OrElse(env["RUNPOD_TTS_ENDPOINT"],
                                         loaded.tts.endpoint_id),
                  api_key |-> OrElse(env["RUNPOD_TTS_API_KEY"], tts_key)],
         llm |-> loaded.llm]

\* The service is stopped and started again in environment `env`: startup
\* runs load_config, and whatever call was under way is gone.
Restart(env) ==
    /\ cfg' = [stt |-> load_config(disk, env).stt, tts |-> load_config(disk, env).tts]
    /\ llm' = load_config(disk, env).llm
    /\ rUpdate' = Restarted(env, rUpdate)
    /\ rPc' = "idle" /\ rReq' = NoRequest /\ rNet' = 0 /\ rOutcome' = NoOutcome
    /\ rArgs' = [messages |-> <<>>, provider |-> NoneV, model |-> NoneV]
    /\ rList' = <<>>
    /\ UNCHANGED disk
    /\ UNCHANGED notConfig

----------------------------------------------------------------------------
(* Specifications *)

\* The job gateways, called through POST /stt/transcribe and /tts/synthesize.
JobInit ==
    /\ cfg \in Configs
    /\ JobIdle
    /\ RouterAtRest
    /\ RelayIdle
    /\ BridgeIdle

JobNext ==
    \/ \E text \in SynthTexts : JobCall("tts", text)
    \/ JobCall("stt", "")
    \/ \E http \in HttpStatuses, body \in Bodies(jKind) :
         JobSubmitResponse(http, body)
    \/ \E body \in Bodies(jKind) : JobPollResponse(body)
    \/ JobReturn

SpecJob == JobInit /\ [][JobNext]_vars

\* The same, with the remote service answering every request: the client is
\* built with timeout=120, so each awaited request ends.
JobFairness ==
    /\ WF_vars(\E http \in HttpStatuses, body \in Bodies(jKind) :
                  JobSubmitResponse(http, body))
    /\ WF_vars(\E body \in Bodies(jKind) : JobPollResponse(body))

SpecJobLive == JobInit /\ [][JobNext]_vars /\ JobFairness

\* The LLM router and the registry's HTTP operations.
RouterInit ==
    /\ \E env \in Envs : llm = DefaultLLM(env)
    /\ disk = NoFile
    /\ rUpdate = NoUpdate
    /\ RouterIdle
    /\ ModelsIdle
    /\ cfg = DefaultCfg
    /\ JobIdle
    /\ RelayIdle
    /\ BridgeIdle

RouterNext ==
    \/ \E messages \in ChatInputs, p \in ChatProviders, mdl \in ChatModels :
         RouterChat(messages, p, mdl)
    \/ \E http \in {200, 500}, content \in LLMReplies : RouterResponse(http, content)
    \/ RouterReturn
    \/ \E n \in UpsertNames, pc \in UpsertConfigs : api_add_provider(n, pc)
    \/ \E a \in ActiveChoices : api_set_active_llm(a[1], a[2])

SpecRouter == RouterInit /\ [][RouterNext]_vars

\* The Anthropic adapter on message lists of every shape.
AnthropicMaxLen == 3
AnthropicMessages ==
    {Msg("system", "be brief"), Msg("system", "be kind"), Msg("system", ""),
     Msg("user", "hello"), Msg("assistant", "hello back")}
RECURSIVE ListsUpTo(_, _)
ListsUpTo(set, n) ==
    IF n = 0 THEN {<<>>}
    ELSE ListsUpTo(set, n - 1)
           \cup {Append(l, x) : l \in ListsUpTo(set, n - 1), x \in set}
AnthropicInputs == ListsUpTo(AnthropicMessages, AnthropicMaxLen) \ {<<>>}

AnthropicInit ==
    /\ llm = DefaultLLM([v \in EnvVars |-> "sk-env"])
    /\ disk = NoFile
    /\ rUpdate = NoUpdate
    /\ RouterIdle
    /\ ModelsIdle
    /\ cfg = DefaultCfg
    /\ JobIdle
    /\ RelayIdle
    /\ BridgeIdle

AnthropicNext ==
    \/ \E messages \in AnthropicInputs : RouterChat(messages, "anthropic", NoneV)
    \/ \E http \in {200, 500} : RouterResponse(http, "hello back")
    \/ RouterReturn

SpecAnthropic == AnthropicInit /\ [][AnthropicNext]_vars

\* list_models, with upserts that change the configured lists.
TagsBodies ==
    {NotJson, JsonArray, JsonObject(NoMember), JsonObject(Null), JsonObject(List(<<>>)),
     JsonObject(List(<<Tag("llama3:latest"), Tag("phi3")>>)),
     JsonObject(List(<<Tag("llama3:latest"), Tag(Absent)>>))}
TagsReplies ==
    {ConnectError, Timeout}
        \cup {TagsResponse(200, b) : b \in TagsBodies}
        \cup {TagsResponse(500, NotJson),
              TagsResponse(404, JsonObject(List(<<Tag("llama3:latest")>>)))}
ListProviders == {"ollama", "openai", "nope"}
ListUpserts == {LLMProvider("", "http://ollama.lan:11434", <<"qwen2">>),
                LLMProvider("", "http://localhost:11434", <<>>)}

ModelsInit ==
    /\ ModelsIdle
    /\ RouterIdle /\ llm = DefaultLLM([v \in EnvVars |-> ""]) /\ disk = NoFile
    /\ rUpdate = NoUpdate
    /\ cfg = DefaultCfg
    /\ JobIdle
    /\ RelayIdle
    /\ BridgeIdle

ModelsNext ==
    \/ \E provider \in ListProviders, reply \in TagsReplies : ListModels(provider, reply)
    \/ \E pc \in ListUpserts : api_add_provider("ollama", pc)

SpecModels == ModelsInit /\ [][ModelsNext]_vars

\* The configuration: its three update operations, restarts of the service,
\* and chats that use the active provider and model.
StartEnvs ==
    {EnvWith({}),
     EnvWith((EnvVars \cup RunpodVars) \ {"RUNPOD_API_KEY"}),
     EnvWith({"RUNPOD_API_KEY", "ANTHROPIC_API_KEY"})}

ConfigInit ==
    /\ \E env \in StartEnvs :
          /\ cfg = [stt |-> load_config(NoFile, env).stt,
                    tts |-> load_config(NoFile, env).tts]
          /\ llm = load_config(NoFile, env).llm
    /\ disk = NoFile
    /\ rUpdate = NoUpdate
    /\ RouterIdle
    /\ ModelsIdle
    /\ JobIdle
    /\ RelayIdle
    /\ BridgeIdle

ConfigNext ==
    \/ \E messages \in ChatInputs : RouterChat(messages, NoneV, NoneV)
    \/ \E http \in {200, 500} : RouterResponse(http, "hello back")
    \/ RouterReturn
    \/ \E n \in UpsertNames, pc \in UpsertConfigs : api_add_provider(n, pc)
    \/ \E a \in ActiveChoices : api_set_active_llm(a[1], a[2])
    \/ \E u \in ConfigUpdates : api_update_config(u)
    \/ \E env \in StartEnvs : Restart(env)

SpecConfig == ConfigInit /\ [][ConfigNext]_vars

\* The /ws/voice relay with two connections.  What the gateways and the
\* router answer is drawn from the outcomes their own specifications reach.
RelayMaxHistory == 2
UserText(s) == IF s = "A" THEN "hello from A" ELSE "hello from B"
SttOutcomes(s) == {Return(UserText(s)),
                   Raise("HTTPException", 400, "STT not configured")}
ChatOutcomes == {Return("hello back"), Return(""),
                 Raise("ValueError", 0, "Unknown provider")}
TtsOutcomes == {Return("hi"), Raise("HTTPException", 500, "TTS job failed")}
RelaySettingsEvents == {[type |-> "settings", temperature |-> 90]}
AudioInputs == {"aGk=", "a"}

RelayInit ==
    /\ RelayIdle
    /\ cfg = DefaultCfg
    /\ JobIdle
    /\ RouterAtRest
    /\ BridgeIdle

\* The events a client sends.
AudioEvents == {[type |-> "audio", audio_base64 |-> a] : a \in AudioInputs}
TextEvents(s) ==
    {[type |-> "text", text |-> UserText(s), synthesize |-> f] : f \in BOOLEAN}
ClientEvents(s, settings) ==
    AudioEvents \cup TextEvents(s) \cup settings
        \cup {[type |-> "clear"], [type |-> "ping"]}

\* The history of a session stays within `max`: a turn is sent only when the
\* turns under way and waiting leave room for its two messages.
IsTurn(event) == event.type \in {"audio", "text"}
PendingGrowth(s) ==
    2 * Len(SelectSeq(wInbox[s], IsTurn))
      + (IF wPc[s] = "stt" THEN 2 ELSE IF wPc[s] = "llm" THEN 1 ELSE 0)
RoomForTurn(s, event, max) ==
    IsTurn(event) => Len(wHistory[s]) + PendingGrowth(s) + 2 <= max

\* Here a client sends its next event once the one before it is dealt with;
\* the second client sends text and clear events only.
RelayEvents(s) ==
    IF s = "A" THEN ClientEvents(s, RelaySettingsEvents)
    ELSE TextEvents(s) \cup {[type |-> "clear"]}

RelayArrive(s) ==
    \E e \in RelayEvents(s) :
        /\ wPc[s] = "recv" /\ wInbox[s] = <<>>
        /\ RoomForTurn(s, e, RelayMaxHistory)
        /\ WsArrive(s, e)

RelayNext ==
    \E s \in Sessions :
        \/ WsConnect(s)
        \/ WsDisconnect(s)
        \/ RelayArrive(s)
        \/ WsAudio(s)
        \/ \E o \in SttOutcomes(s) : WsTranscribed(s, o)
        \/ WsText(s)
        \/ \E o \in ChatOutcomes : WsChatted(s, o)
        \/ \E o \in TtsOutcomes : WsSynthesized(s, o)
        \/ WsClear(s)
        \/ WsSettings(s)
        \/ WsOther(s)

SpecRelay == RelayInit /\ [][RelayNext]_vars

\* One /ws/voice session whose client sends without waiting for answers.
SessionMaxInbox == 2
SessionMaxHistory == 4
SessionSettingsEvents ==
    {[type |-> "settings", temperature |-> 90],
     [type |-> "settings", exaggeration |-> 70, cfg_weight |-> 30,
      audio_prompt_base64 |-> "aGV5"]}

SessionArrive(s) ==
    \E e \in ClientEvents(s, SessionSettingsEvents) :
        /\ Len(wInbox[s]) < SessionMaxInbox
        /\ RoomForTurn(s, e, SessionMaxHistory)
        /\ WsArrive(s, e)

SessionNext ==
    \E s \in {"A"} :
        \/ WsConnect(s)
        \/ WsDisconnect(s)
        \/ SessionArrive(s)
        \/ WsAudio(s)
        \/ \E o \in SttOutcomes(s) : WsTranscribed(s, o)
        \/ WsText(s)
        \/ \E o \in ChatOutcomes : WsChatted(s, o)
        \/ \E o \in TtsOutcomes : WsSynthesized(s, o)
        \/ WsClear(s)
        \/ WsSettings(s)
        \/ WsOther(s)

SpecSession == RelayInit /\ [][SessionNext]_vars

\* The bridge WebSocket server with two connections; the second one sends
\* text messages only.
BridgeMaxMessages == 4
StreamChunks == {<<"hello">>, <<"hel", "lo">>}
ListenOutcomes(c) == {Return(UserText(c)), Raise("RuntimeError", 0, "STT failed")}
SpeakOutcomes == {Return("hi"), Raise("RuntimeError", 0, "TTS failed")}

BridgeInit ==
    /\ BridgeIdle
    /\ cfg = DefaultCfg
    /\ JobIdle
    /\ RouterAtRest
    /\ RelayIdle

BridgeRoom == Len(bMessages) + 2 <= BridgeMaxMessages

BridgeNext ==
    \E c \in Sessions :
        \/ BrConnect(c)
        \/ BrDisconnect(c)
        \/ \E t \in {"ping", "hello", "<invalid json>"} : c = "A" /\ BrSimple(c, t)
        \/ \E a \in AudioInputs : c = "A" /\ BridgeRoom /\ BrAudio(c, a)
        \/ \E o \in ListenOutcomes(c) : BrListened(c, o)
        \/ \E f \in BOOLEAN : BridgeRoom /\ BrText(c, UserText(c), f)
        \/ \E ch \in StreamChunks : BrStreamStart(c, ch, FALSE)
        \/ BrStreamStart(c, <<>>, TRUE)
        \/ BrStreamNext(c)
        \/ BrStreamBreaks(c)
        \/ \E o \in SpeakOutcomes : BrSpoken(c, o)

SpecBridge == BridgeInit /\ [][BridgeNext]_vars

----------------------------------------------------------------------------
(* The job gateways: properties (SpecJob) *)

JobDone == jPc = "done"
SubmittedOk == jHttp = 200
NoPollWasTerminal == jSeen = MaxPolls /\ jLast.status \notin {"COMPLETED", "FAILED"}

\* C3: a submission answered IN_QUEUE or IN_PROGRESS whose 60 poll responses
\* never report COMPLETED or FAILED ends in a raised timeout error, never in
\* a returned text or audio.
C3_CeilingRaisesTimeout ==
    (JobDone /\ SubmittedOk /\ jSub.status \in {"IN_QUEUE", "IN_PROGRESS"}
        /\ NoPollWasTerminal)
    => (jOutcome.kind = "raise" /\ jOutcome.status_code = 504)

\* C4: a submission answered COMPLETED is followed by no status poll; a
\* submission answered IN_QUEUE whose poll responses are N times IN_PROGRESS
\* and then COMPLETED is followed by exactly N+1 status polls, and the value
\* returned is extracted from the COMPLETED poll response.
C4_PollCount ==
    /\ (SubmittedOk /\ jSub.status = "COMPLETED") => jPolls = 0
    /\ (JobDone /\ SubmittedOk /\ jSub.status = "IN_QUEUE" /\ jSeen >= 1
            /\ jPrevInProg /\ jLast.status = "COMPLETED")
       => (jPolls = jSeen /\ jSeen <= MaxPolls
            /\ jResult = jLast /\ jOutcome = Extract(jKind, jLast))

C4_Witness ==
    /\ JobDone /\ jKind = "stt" /\ jSub.status = "IN_QUEUE" /\ jPrevInProg
    /\ jLast.status = "COMPLETED" /\ jSeen = 3 /\ jPolls = 3
    /\ jOutcome = Return("hello world")

\* C5: a job reported FAILED, in the submission response or in a poll
\* response, ends the call in a raised job-failed error.
C5_FailedRaises ==
    (JobDone /\ SubmittedOk /\ (jSub.status = "FAILED" \/ jLast.status = "FAILED"))
    => (jOutcome.kind = "raise" /\ jOutcome.detail = JobFailedDetail(jKind))

\* C8: synthesis of an empty text is refused before any request is issued.
C8_EmptyTextNoRequest ==
    (jKind = "tts" /\ jText = "")
    => (jPosts = 0 /\ (JobDone => jOutcome.kind = "raise"))

\* C9: with an empty endpoint id or API key the call raises "not configured"
\* and issues no request; a submission answered with a non-200 status raises
\* the upstream error and is followed by no status poll.
C9_GuardsBeforeNetwork ==
    /\ (jKind # "none" /\ (cfg[jKind].endpoint_id = "" \/ cfg[jKind].api_key = ""))
       => (jPosts = 0 /\ jPolls = 0 /\ JobDone
            /\ jOutcome = Raise("HTTPException", 400, NotConfiguredDetail(jKind)))
    /\ (jHttp \notin {0, 200})
       => (jPolls = 0 /\ jSeen = 0 /\ JobDone /\ jOutcome.kind = "raise"
            /\ jOutcome.exc = "HTTPException"
            /\ jOutcome.detail = UpstreamDetail(jKind))

C9_Witness ==
    /\ JobDone /\ jKind = "stt" /\ jHttp = 500 /\ jPosts = 1 /\ jPolls = 0
    /\ jOutcome.kind = "raise"

----------------------------------------------------------------------------
(* The LLM router: properties (SpecRouter) *)

\* A step that is a call of LLMRouter.chat.
ChatCalled == rPc = "idle" /\ rPc' # "idle"

\* The provider a call names: its argument, or the active provider as it was
\* when the call was made.
NamedProvider == IF Falsy(rArgs'.provider) THEN llm.active_provider ELSE rArgs'.provider

\* C6: a chat whose provider name (given, or the active default) is not a
\* key of the registry raises the unknown-provider error and issues no
\* request, to that provider or to any other.
C6_UnknownProviderRaises ==
    [][(ChatCalled /\ NamedProvider \notin DOMAIN llm.providers)
        => (/\ rPc' = "done"
            /\ rOutcome' = Raise("ValueError", 0, "Unknown provider")
            /\ rNet' = 0
            /\ rReq' = NoRequest)]_vars

C6_Witness ==
    /\ rPc = "done" /\ rArgs.provider = "nope" /\ rNet = 0
    /\ rOutcome = Raise("ValueError", 0, "Unknown provider")

\* The providers whose API requires a key.
KeyedProviders == {"anthropic", "openrouter", "openai", "groq"}

\* C7: no request goes out to a provider that requires a key while that
\* provider's api_key is empty; the call fails with a configuration error.
Credential(req) ==
    IF req.shape = "anthropic" THEN req.x_api_key ELSE req.authorization

C7_NoRequestWithoutKey ==
    (rReq # NoRequest /\ rReq.provider \in KeyedProviders)
    => Credential(rReq) \notin {"", NoneV, Absent}

\* The model a call names: its argument, or the active model as it was when
\* the call was made.
NamedModel == IF Falsy(rArgs'.model) THEN llm.active_model ELSE rArgs'.model

\* The request path of each request shape.
ShapeOf(provider) ==
    CASE provider = "ollama" -> "ollama"
      [] provider = "anthropic" -> "anthropic"
      [] OTHER -> "openai"
PathOf(shape) ==
    CASE shape = "ollama" -> "/api/chat"
      [] shape = "anthropic" -> "/messages"
      [] OTHER -> "/chat/completions"

\* C15: a chat for a registered provider, the one given or else the active
\* one, sends one request: to {base_url}/api/chat in the Ollama shape for
\* "ollama", to {base_url}/messages in the Anthropic shape for "anthropic",
\* to {base_url}/chat/completions in the OpenAI shape for any other name; the
\* request carries the model given or else the active model.
C15_RoutesByEffectiveProvider ==
    /\ [](rNet <= 1 /\ (rPc = "await" => rNet = 1))
    /\ [][(ChatCalled /\ NamedProvider \in DOMAIN llm.providers) =>
            /\ rPc' = "await"
            /\ rNet' = 1
            /\ rReq'.provider = NamedProvider
            /\ rReq'.model = NamedModel
            /\ rReq'.shape = ShapeOf(NamedProvider)
            /\ rReq'.url = <<llm.providers[NamedProvider].base_url,
                             PathOf(ShapeOf(NamedProvider))>>
        ]_vars

C15_Witness ==
    /\ rPc = "await" /\ rArgs.provider = NoneV /\ rArgs.model = NoneV
    /\ rReq.shape = "ollama" /\ rReq.model = "llama3"
    /\ rReq.url = <<"http://localhost:11434", "/api/chat">>

\* C16: from the call on, whether it sends a request, fails before one or
\* gets an error back, the caller's list holds the messages it was called
\* with, in their order.
C16_CallerListUnchanged ==
    rPc # "idle" => rList = rArgs.messages

C16_Witness ==
    /\ rPc = "done" /\ rOutcome.kind = "raise" /\ rReq.shape = "anthropic"
    /\ rReq.messages # rArgs.messages
    /\ rList = <<Msg("system", "be brief"), Msg("user", "hello")>>

----------------------------------------------------------------------------
(* list_models: properties (SpecModels) *)

\* A body that is a tags listing: a JSON object whose "models" is a list of
\* objects with a name.
WellFormed(body) ==
    /\ body.json = "object"
    /\ body.models.t = "list"
    /\ \A i \in DOMAIN body.models.tags : body.models.tags[i].name # Absent

\* The live query failed: no connection, no answer in time, a status other
\* than 200, or a body that is not a tags listing.
QueryFailed(reply) ==
    \/ reply.t \in {"connect_error", "timeout"}
    \/ reply.t = "response" /\ (reply.status # 200 \/ ~WellFormed(reply.body))

Unreachable(reply) == reply.t \in {"connect_error", "timeout"}

\* C17: list_models never raises; for "ollama" with a failed live query it
\* returns the configured models; two calls in a row with the endpoint
\* unreachable and the same configured models return the same list.
C17_FallbackToConfigured ==
    lCall # NoListCall =>
        /\ lCall.result.kind = "return"
        /\ (lCall.provider = "ollama" /\ QueryFailed(lCall.reply))
              => lCall.result = Return(lCall.configured)
        /\ (/\ lPrev # NoListCall
            /\ lPrev.provider = lCall.provider
            /\ lPrev.configured = lCall.configured
            /\ Unreachable(lPrev.reply) /\ Unreachable(lCall.reply))
              => lPrev.result = lCall.result

----------------------------------------------------------------------------
(* The configuration: properties (SpecConfig) *)

\* An argument of an update that is set and not empty.
IsSet(x) == x \notin {NoneV, ""}

\* The registry entry an upsert asks for.
Asked(provider) == LLMProvider(provider.api_key, provider.base_url, provider.models)

\* C18: when the service restarts after an upsert, the registry it loads
\* holds for the upserted name the api_key, base_url and models of the
\* upsert.
C18_UpsertSurvivesRestart ==
    (rUpdate.op = "restart" /\ rUpdate.before.op = "upsert") =>
        /\ rUpdate.before.name \in DOMAIN llm.providers
        /\ llm.providers[rUpdate.before.name] = Asked(rUpdate.before.provider)

\* The provider whose key an environment variable holds.
KeyVarOf(name) ==
    CASE name = "openrouter" -> "OPENROUTER_API_KEY"
      [] name = "openai" -> "OPENAI_API_KEY"
      [] name = "anthropic" -> "ANTHROPIC_API_KEY"
      [] name = "groq" -> "GROQ_API_KEY"

\* C19: after a start, a value that both the environment and the file hold
\* is the environment's: the four provider keys, and the STT and TTS
\* endpoint ids and keys.
C19_EnvironmentWins ==
    (rUpdate.op = "restart" /\ disk # NoFile) =>
        LET env == rUpdate.env IN
        /\ \A name \in {"openrouter", "openai", "anthropic", "groq"} :
              (IsSet(env[KeyVarOf(name)]) /\ IsSet(disk.llm.providers[name].api_key))
                => llm.providers[name].api_key = env[KeyVarOf(name)]
        /\ (IsSet(env["RUNPOD_STT_ENDPOINT"]) /\ IsSet(disk.stt.endpoint_id))
              => cfg.stt.endpoint_id = env["RUNPOD_STT_ENDPOINT"]
        /\ (IsSet(env["RUNPOD_STT_API_KEY"]) /\ IsSet(disk.stt.api_key))
              => cfg.stt.api_key = env["RUNPOD_STT_API_KEY"]
        /\ (IsSet(env["RUNPOD_TTS_ENDPOINT"]) /\ IsSet(disk.tts.endpoint_id))
              => cfg.tts.endpoint_id = env["RUNPOD_TTS_ENDPOINT"]
        /\ (IsSet(env["RUNPOD_TTS_API_KEY"]) /\ IsSet(disk.tts.api_key))
              => cfg.tts.api_key = env["RUNPOD_TTS_API_KEY"]

\* A step that is one of the three updates.
Updates == rUpdate' # rUpdate /\ rUpdate'.op # "restart"

\* C20: every state a chat can read is the state one whole update has left:
\* all that the latest update asked for is in the configuration, and the file
\* holds the same.  A chat takes the active provider, the active model and
\* that provider's entry from one such state; an update made while its
\* request is under way changes nothing of that request.
C20_UpdatesAreAtomic ==
    /\ [](/\ rUpdate.op = "set-active" =>
               (/\ llm.active_provider = rUpdate.provider
                /\ llm.active_model = rUpdate.model)
          /\ rUpdate.op = "upsert" =>
               llm.providers[rUpdate.name] = Asked(rUpdate.provider)
          /\ rUpdate.op = "config" =>
               LET u == rUpdate.update IN
               /\ IsSet(u.active_llm_provider) => llm.active_provider = u.active_llm_provider
               /\ IsSet(u.active_llm_model) => llm.active_model = u.active_llm_model
               /\ IsSet(u.stt_endpoint_id) => cfg.stt.endpoint_id = u.stt_endpoint_id
               /\ IsSet(u.stt_api_key) => cfg.stt.api_key = u.stt_api_key
               /\ IsSet(u.tts_endpoint_id) => cfg.tts.endpoint_id = u.tts_endpoint_id
               /\ IsSet(u.tts_api_key) => cfg.tts.api_key = u.tts_api_key
          /\ rUpdate.op \in {"set-active", "upsert", "config"} =>
               disk = SavedData(cfg, llm))
    /\ [][/\ (ChatCalled /\ llm.active_provider \in DOMAIN llm.providers) =>
               /\ rReq'.provider = llm.active_provider
               /\ rReq'.model = llm.active_model
               /\ rReq'.url[1] = llm.providers[llm.active_provider].base_url
               /\ Credential(rReq') \in {llm.providers[llm.active_provider].api_key,
                                         Absent}
          /\ Updates => (rReq' = rReq /\ rPc' = rPc)
        ]_vars

C20_Witness ==
    /\ rPc = "await" /\ rUpdate.op = "set-active"
    /\ rReq.provider = "openrouter" /\ rReq.model = DefaultActiveModel
    /\ llm.active_provider = "ollama" /\ llm.active_model = "llama3"
----------------------------------------------------------------------------
(* The /ws/voice relay: properties (SpecRelay) *)

\* An event's type, and for a status its message.
Shape(e) == IF e.type = "status" THEN <<e.type, e.message>> ELSE <<e.type, "">>
Shapes(events) == [i \in DOMAIN events |-> Shape(events[i])]

AudioTurnShapes ==
    <<<<"status", "Transcribing...">>, <<"transcription", "">>,
      <<"status", "Thinking...">>, <<"response", "">>,
      <<"status", "Synthesizing...">>, <<"audio", "">>>>

IsPrefix(p, q) == Len(p) <= Len(q) /\ SubSeq(q, 1, Len(p)) = p

\* C1: the events sent for an `audio` event are, at every moment, the first
\* ones of status "Transcribing...", transcription, status "Thinking...",
\* response, status "Synthesizing...", audio; one is added per successful
\* call, and once the three calls have succeeded all six have been sent, with
\* the transcribed text, the LLM's response and the synthesized audio.
C1_AudioTurnEvents ==
    \A s \in Sessions :
        wData[s].type = "audio" =>
            /\ IsPrefix(Shapes(wSent[s]), AudioTurnShapes)
            /\ wPc[s] = "stt" => Len(wSent[s]) = 1
            /\ wPc[s] = "llm" => Len(wSent[s]) = 3
            /\ wPc[s] = "tts" => Len(wSent[s]) = 5
            /\ wPc[s] \in {"recv", "closed"} =>
                /\ Len(wSent[s]) = 6
                /\ wSent[s][2].text = wAsked[s][Len(wAsked[s])].content
                /\ wSent[s][4].text = wSpoken[s].text
                /\ wSent[s][4].text = wHistory[s][Len(wHistory[s])].content
                /\ wSent[s][6].audio_base64 = "aGk="

C1_Witness ==
    \E s \in Sessions :
        /\ wData[s].type = "audio" /\ wPc[s] = "recv"
        /\ Shapes(wSent[s]) = AudioTurnShapes
        /\ wSent[s][2].text = UserText(s)
        /\ wSent[s][4].text = "hello back"

\* C2: a transcription, LLM or synthesis call that raises is answered with an
\* `error` event carrying a message, and the session goes on receiving.
C2_FailureRelayedAsError ==
    \A s \in Sessions :
        wRaised[s].kind = "raise" =>
            /\ wPc[s] = "recv"
            /\ wSent[s] # <<>>
            /\ wSent[s][Len(wSent[s])].type = "error"

----------------------------------------------------------------------------
(* One session of the relay: properties (SpecSession) *)

\* A step in which session s reads an event from its socket.
Reads(s) == Len(wInbox'[s]) < Len(wInbox[s]) \/ wData'[s] # wData[s]

\* Everything the handling of `data` sends and appends has been sent and
\* appended, and the coroutine is back at receive_json.
LastIsAssistant(s, text) ==
    /\ wHistory[s] # <<>>
    /\ wHistory[s][Len(wHistory[s])] = Msg("assistant", text)
ProcessedToCompletion(s) ==
    /\ wPc[s] = "recv"
    /\ CASE wData[s].type = "audio" ->
                /\ Shapes(wSent[s]) = AudioTurnShapes
                /\ LastIsAssistant(s, wSent[s][4].text)
          [] wData[s].type = "text" ->
                /\ Shapes(wSent[s]) = IF wData[s].synthesize
                                      THEN <<<<"response", "">>, <<"audio", "">>>>
                                      ELSE <<<<"response", "">>>>
                /\ LastIsAssistant(s, wSent[s][1].text)
          [] wData[s].type = "clear" -> wSent[s] = <<Status("Conversation cleared")>>
          [] wData[s].type = "settings" -> wSent[s] = <<Status("Settings updated")>>
          [] OTHER -> wSent[s] = <<>>

\* C11: a session reads its events in the order they arrived, and reads one
\* only when everything the one before it sends and appends is done; between
\* two reads the events sent are those of the one event being handled, each
\* added after the ones before it, whatever waits at the socket meanwhile.
C11_OneEventAtATime ==
    [][\A s \in Sessions :
        /\ Reads(s) =>
              /\ wInbox[s] # <<>>
              /\ wData'[s] = Head(wInbox[s])
              /\ wInbox'[s] = Tail(wInbox[s])
              /\ ProcessedToCompletion(s)
        /\ ~Reads(s) =>
              /\ IsPrefix(wInbox[s], wInbox'[s])
              /\ IsPrefix(wSent[s], wSent'[s])
              /\ wData[s].type = "audio" => IsPrefix(Shapes(wSent'[s]), AudioTurnShapes)
              /\ wData[s].type = "text" =>
                    IsPrefix(Shapes(wSent'[s]), <<<<"response", "">>, <<"audio", "">>>>)
      ]_vars

C11_Witness ==
    /\ wPc["A"] = "tts" /\ wData["A"].type = "audio" /\ Len(wSent["A"]) = 5
    /\ Len(wInbox["A"]) = 2 /\ wInbox["A"][1].type = "text"

\* The roles of a history alternate, starting with the user.
Alternates(history) ==
    \A i \in DOMAIN history :
        history[i].role = IF i % 2 = 1 THEN "user" ELSE "assistant"

\* The text of the response event among the events sent.
ResponseSent(events) ==
    LET i == CHOOSE i \in DOMAIN events : events[i].type = "response"
    IN  events[i].text

\* C12: without a clear, a session's history only grows at its end: a turn
\* appends the user's message, gives the LLM the whole history up to and
\* including it, and then appends the assistant's response; so k turns leave
\* user_1, assistant_1, ..., user_k, assistant_k, equal messages included.
C12_HistoryInTurnOrder ==
    /\ [](\A s \in Sessions :
            /\ Alternates(wHistory[s])
            /\ wPc[s] \in {"recv", "tts"} => Len(wHistory[s]) % 2 = 0
            /\ wPc[s] = "llm" => (Len(wHistory[s]) % 2 = 1 /\ wAsked[s] = wHistory[s]))
    /\ [][\A s \in Sessions :
            /\ wData'[s].type # "clear" => IsPrefix(wHistory[s], wHistory'[s])
            /\ (wPc[s] # "llm" /\ wPc'[s] = "llm") =>
                  /\ wHistory'[s] = Append(wHistory[s],
                        Msg("user", IF wData'[s].type = "text" THEN wData'[s].text
                                    ELSE wSent'[s][2].text))
                  /\ wAsked'[s] = wHistory'[s]
            /\ (wPc[s] = "llm" /\ wPc'[s] \in {"tts", "recv"}) =>
                  wHistory'[s] = Append(wHistory[s],
                                        Msg("assistant", ResponseSent(wSent'[s])))
        ]_vars

C12_Witness ==
    /\ wPc["A"] = "recv"
    /\ wHistory["A"] = <<Msg("user", "hello from A"), Msg("assistant", "hello back"),
                         Msg("user", "hello from A"), Msg("assistant", "hello back")>>
    /\ wAsked["A"] = SubSeq(wHistory["A"], 1, 3)

\* C13: reading a `clear` event empties the history whatever it held, sends
\* the one status "Conversation cleared" and leaves the TTS settings as they
\* were; the LLM call of the first turn after it is given that turn's user
\* message and nothing else.
C13_ClearEmptiesHistory ==
    [][\A s \in Sessions :
        /\ (Reads(s) /\ wData'[s].type = "clear") =>
              /\ wHistory'[s] = <<>>
              /\ wSent'[s] = <<Status("Conversation cleared")>>
              /\ wSettings'[s] = wSettings[s]
              /\ wPc'[s] = "recv"
        /\ (wData[s].type = "clear" /\ ~Reads(s)) =>
              (wHistory'[s] = <<>> /\ wSent'[s] = wSent[s])
        /\ (wHistory[s] = <<>> /\ wPc[s] # "llm" /\ wPc'[s] = "llm") =>
              (Len(wAsked'[s]) = 1 /\ wAsked'[s][1].role = "user")
      ]_vars

C13_Witness ==
    /\ wData["A"].type = "clear" /\ wHistory["A"] = <<>>
    /\ Len(wAsked["A"]) = 3
    /\ wSettings["A"] # DefaultSettings
    /\ wSent["A"] = <<Status("Conversation cleared")>>

\* C14: reading a `settings` event sets each TTS parameter whose key the event
\* holds to the event's value and leaves the other parameters and the history
\* as they were; a synthesis is called with the settings as they then stand.
C14_SettingsPartialUpdate ==
    /\ [](\A s \in Sessions : wPc[s] = "tts" => wSpoken[s].settings = wSettings[s])
    /\ [][\A s \in Sessions :
            /\ (Reads(s) /\ wData'[s].type = "settings") =>
                  /\ \A k \in SettingsKeys :
                        wSettings'[s][k] = IF k \in DOMAIN wData'[s]
                                           THEN wData'[s][k] ELSE wSettings[s][k]
                  /\ wHistory'[s] = wHistory[s]
                  /\ wSent'[s] = <<Status("Settings updated")>>
            /\ ~(Reads(s) /\ wData'[s].type = "settings") =>
                  (wPc[s] # "new" => wSettings'[s] = wSettings[s])
        ]_vars

C14_Witness ==
    /\ wPc["A"] = "tts"
    /\ wSpoken["A"].settings =
          [exaggeration |-> 70, temperature |-> 90, cfg_weight |-> 30,
           audio_prompt_base64 |-> "aGV5"]

----------------------------------------------------------------------------
(* The bridge server: properties (SpecBridge) *)

\* C10: the message list a connection's LLM call is given holds no user
\* message of another connection.
C10_HistoryNotShared ==
    \A c \in Sessions :
        \A i \in DOMAIN bAsked[c] :
            bAsked[c][i].role = "user" => bAsked[c][i].content = UserText(c)

----------------------------------------------------------------------------
(* The provider catalogue: properties (SpecConfig) *)

\* The backends that take no key: LLMConfig.__post_init__ creates both with
\* api_key "".
NoAuthBackends == {"ollama", "local"}

\* C21: GET /llm/providers reports every provider of the registry, with
\* configured = TRUE exactly when the provider's api_key is non-empty, except
\* that a no-auth backend ("ollama", "local") is reported configured = TRUE
\* whatever its key.
C21_ConfiguredFlag ==
    /\ DOMAIN api_get_providers(llm).providers = DOMAIN llm.providers
    /\ \A name \in DOMAIN llm.providers :
          api_get_providers(llm).providers[name].configured =
              (name \in NoAuthBackends \/ IsSet(llm.providers[name].api_key))

----------------------------------------------------------------------------
(* The HTTP boundary: properties (SpecJob) *)

\* C22: a call that fails answers the status of its class: 400 when STT/TTS
\* is not configured or the text to synthesize is empty, 502 when the
\* submission is answered with a non-200 status, 504 when the 60 polls saw no
\* terminal status; a failure answers nothing but 400, 502, 504 or 500, so
\* the remote service's own status is never the answer.
C22_StatusClasses ==
    JobDone =>
        /\ ~Configured(cfg, jKind) => HttpStatus(jOutcome) = 400
        /\ (Configured(cfg, jKind) /\ jKind = "tts" /\ jText = "")
           => HttpStatus(jOutcome) = 400
        /\ jHttp \notin {0, 200} => HttpStatus(jOutcome) = 502
        /\ (SubmittedOk /\ jSub.status \in {"IN_QUEUE", "IN_PROGRESS"}
                /\ NoPollWasTerminal)
           => HttpStatus(jOutcome) = 504
        /\ jOutcome.kind = "raise" => HttpStatus(jOutcome) \in {400, 500, 502, 504}

----------------------------------------------------------------------------
(* Disconnects: properties (SpecRelay) *)

\* The connections in the manager's list.
Connected == {active_connections[i] : i \in DOMAIN active_connections}

\* Session t is left as it was by a step.
Untouched(t) ==
    /\ wPc'[t] = wPc[t] /\ wData'[t] = wData[t] /\ wHistory'[t] = wHistory[t]
    /\ wSettings'[t] = wSettings[t] /\ wSent'[t] = wSent[t]
    /\ wAsked'[t] = wAsked[t] /\ wSpoken'[t] = wSpoken[t]
    /\ wRaised'[t] = wRaised[t] /\ wInbox'[t] = wInbox[t]
    /\ (t \in Connected)' = (t \in Connected)

\* C23: a disconnect seen at receive_json ends the session without an error:
\* the step sends nothing and records no exception, the session goes from
\* open to closed, its connection leaves the list of active connections, and
\* every other session is left as it was; a closed session stays closed and
\* out of the list.
C23_DisconnectEndsSession ==
    /\ [](\A s \in Sessions : wPc[s] = "closed" => s \notin Connected)
    /\ [][\A s \in Sessions :
            /\ (wPc[s] # "closed" /\ wPc'[s] = "closed")
               => /\ wPc[s] = "recv"
                  /\ s \in Connected /\ s \notin Connected'
                  /\ wSent'[s] = wSent[s]
                  /\ wRaised'[s] = wRaised[s]
                  /\ wHistory'[s] = wHistory[s]
                  /\ \A t \in Sessions \ {s} : Untouched(t)
            /\ wPc[s] = "closed" => wPc'[s] = "closed"]_vars

\* A session has closed after a turn while the other one is in the middle of
\* its own turn and still connected.
C23_Witness ==
    /\ wPc["A"] = "closed" /\ Len(wHistory["A"]) = 2
    /\ wPc["B"] = "llm" /\ active_connections = <<"B">>

----------------------------------------------------------------------------
(* Termination and requests of the job gateways: properties (SpecJobLive) *)

Terminal(body) == body.status \in {"COMPLETED", "FAILED"}
Called == jKind # "none"

\* What holds of the status polls of every call: at most 60 are issued, at
\* most one is unanswered, none is issued once a poll response was COMPLETED
\* or FAILED, and none is unanswered when the call is over.
PollsBounded ==
    /\ jPolls <= MaxPolls
    /\ jPolls - jSeen \in {0, 1}
    /\ (jSeen >= 1 /\ Terminal(jLast)) => (JobDone /\ jPolls = jSeen)
    /\ JobDone => jPolls = jSeen

\* C24 as stated: every call ends, after exactly one submission request and at
\* most 60 status polls, with no status poll after a COMPLETED or FAILED poll
\* response.
C24_OneSubmissionEveryCall ==
    /\ [](Called => (PollsBounded /\ (JobDone => jPosts = 1)))
    /\ (Called ~> JobDone)

\* C24, amended: every call ends; a call that passes the not-configured guard
\* issues exactly one submission request and a call that does not issues
\* none; at most 60 status polls are issued, and none after a COMPLETED or
\* FAILED poll response, whatever statuses the remote service reports.
C24_BoundedRequests ==
    /\ [](Called => /\ PollsBounded
                    /\ jPosts = (IF Configured(cfg, jKind) THEN 1 ELSE 0))
    /\ (Called ~> JobDone)

\* A call has ended after 60 polls that all reported a status outside the
\* documented ones.
C24_Witness ==
    /\ JobDone /\ jPosts = 1 /\ jPolls = MaxPolls /\ jSeen = MaxPolls
    /\ jLast.status = "CANCELLED" /\ jSub.status = "IN_QUEUE"

----------------------------------------------------------------------------
(* The Anthropic payload: properties (SpecAnthropic) *)

\* The non-empty contents of the system messages of a list.
SystemContents(messages) ==
    {messages[i].content : i \in {j \in DOMAIN messages :
                                     /\ messages[j].role = "system"
                                     /\ messages[j].content # ""}}

\* The system contents a payload carries: its `system` field is one string,
\* taken whole from one message.
Carried(req) == IF req.system = Absent THEN {} ELSE {req.system}

\* payload["messages"] is the input without its system messages, in order.
MessagesHoisted ==
    /\ \A i \in DOMAIN rReq.messages : rReq.messages[i].role # "system"
    /\ rReq.messages = SelectSeq(rArgs.messages, LAMBDA msg : msg.role # "system")

\* payload["system"] is there exactly when the input has a system message
\* with a content.
SystemPresent == (rReq.system # Absent) <=> (SystemContents(rArgs.messages) # {})

\* Every system content of the input is in the payload.
NoSystemLost == SystemContents(rArgs.messages) \subseteq Carried(rReq)

\* C25: the Anthropic payload's `messages` is the subsequence of the
\* non-system input messages in their order, and its `system` field carries
\* the input's system content: present exactly when the input has a system
\* message with a non-empty content, and with several system messages none
\* of their contents is lost.
C25_SystemHoisted ==
    (rPc # "idle" /\ rReq # NoRequest /\ rReq.shape = "anthropic")
    => (MessagesHoisted /\ SystemPresent /\ NoSystemLost)

----------------------------------------------------------------------------
(* The history across failed turns: properties (SpecBridge) *)

\* user, assistant, user, assistant, ... from the first message on.
TurnsAlternate(history) ==
    \A i \in DOMAIN history :
        history[i].role = (IF i % 2 = 1 THEN "user" ELSE "assistant")

\* Only connection "A" has ever been open: what is in the history comes from
\* one session.
OnlyA == bPc["B"] = "new"

\* C26: with one session, the history and every list handed to the LLM
\* alternate user, assistant, user, ... starting with user; a turn whose LLM
\* call failed has left no message behind, so no later call is given two
\* user messages in a row.
C26_FailedTurnLeavesNoMessage ==
    OnlyA => (TurnsAlternate(bMessages) /\ TurnsAlternate(bAsked["A"]))

----------------------------------------------------------------------------
(* The active connections: properties (SpecRelay) *)

\* The sessions whose websocket_voice coroutine is still running.
Running == {s \in Sessions : wPc[s] \in {"recv", "stt", "llm", "tts"}}

\* C27: the manager's active connections are exactly the sessions whose loop
\* is still running, each held once: a session that has ended, by a
\* disconnect or by an exception raised while an event was handled, is not
\* among them.
C27_ActiveAreRunning ==
    /\ Connected = Running
    /\ Len(active_connections) = Cardinality(Connected)

----------------------------------------------------------------------------
(* The active provider: properties (SpecConfig) *)

\* C28: after any sequence of set-active, config and provider updates, and
\* after any restart, active_provider is a key of the registry, so a chat
\* that names no provider never ends in the unknown-provider error.
C28_ActiveProviderRegistered ==
    /\ llm.active_provider \in DOMAIN llm.providers
    /\ (rPc = "done" /\ Falsy(rArgs.provider))
       => rOutcome # Raise("ValueError", 0, "Unknown provider")

----------------------------------------------------------------------------
(* One terminal event per message: properties (SpecBridge) *)

IsTerminalEvent(e) == e.type \in {"complete", "error"}
TerminalEvents(events) == SelectSeq(events, IsTerminalEvent)

\* The message of connection c has been dealt with.
Handled(c) == bData[c] # NoData /\ bPc[c] \in {"recv", "closed"}
\* It is being dealt with.
UnderWay(c) == bPc[c] \in {"listen", "think", "stream", "speak"}

\* C29: on a connection that stays open while its message is dealt with, an
\* `audio` or `text` message is answered with exactly one terminal event,
\* `complete` or `error`, and it is the last event of the message, after
\* every response_chunk and audio_response; none is sent while the message
\* is under way.  A `ping` is answered with one `pong` and nothing else; a
\* message of another type or with invalid JSON is answered with one
\* `error` and nothing else, and leaves the history and the connections as
\* they were.
C29_OneTerminalEvent ==
    /\ [](\A c \in Sessions :
            /\ UnderWay(c) => TerminalEvents(bSent[c]) = <<>>
            /\ (Handled(c) /\ bData[c].type \in {"audio", "text"})
               => /\ Len(TerminalEvents(bSent[c])) = 1
                  /\ IsTerminalEvent(bSent[c][Len(bSent[c])])
            /\ (Handled(c) /\ bData[c].type = "ping")
               => bSent[c] = <<Event("pong")>>
            /\ (Handled(c) /\ bData[c].type \notin {"audio", "text", "ping"})
               => /\ Len(bSent[c]) = 1
                  /\ bSent[c][1].type = "error")
    /\ [][\A c \in Sessions :
            (bData'[c] # bData[c] /\ bData'[c].type \notin {"audio", "text"})
            => UNCHANGED <<bMessages, bActive, bPc, bUserText, bResponse>>]_vars

\* An audio message was answered down to `complete`, through two chunks and
\* the audio; the other connection's text message ended in `error` after a
\* chunk.
C29_Witness ==
    /\ Handled("A") /\ bData["A"].type = "audio" /\ Len(bSent["A"]) = 8
    /\ bSent["A"][8] = Event("complete") /\ bSent["A"][7].type = "audio_response"
    /\ Handled("B") /\ bData["B"].type = "text"
    /\ bSent["B"][Len(bSent["B"])].type = "error"
    /\ \E i \in DOMAIN bSent["B"] : bSent["B"][i].type = "response_chunk"

----------------------------------------------------------------------------
(* The reported configuration status: properties (SpecConfig) *)

HealthFlag(kind) ==
    IF kind = "stt" THEN health(cfg, llm).stt_configured
    ELSE health(cfg, llm).tts_configured

\* C30: in every configuration state GET /health reports stt_configured
\* (tts_configured) = TRUE exactly when transcribe_audio (synthesize_speech)
\* would pass its not-configured guard, and GET /health and GET /config agree
\* on whether STT and TTS are configured.
C30_StatusAgreesWithGuards ==
    \A kind \in {"stt", "tts"} :
        /\ HealthFlag(kind) = Configured(cfg, kind)
        /\ HealthFlag(kind) = api_get_config(cfg, llm)[kind].configured

====
